---- MODULE Spec2Model ----
(***************************************************************************)
(* Model of devices/create_driver_table.py (IgH EtherCAT master): the      *)
(* script that scans a devices directory for <prefix>-<maj>.<min>-         *)
(* ethercat.c files and renders the kernel-version / driver matrix.        *)
(*                                                                         *)
(* File names, driver names, table cells and the rendered markdown are     *)
(* TLA+ strings; the regular expression, int(), str(), str.format and      *)
(* sorted() are operators that compute what the Python code computes.      *)
(***************************************************************************)
EXTENDS Integers, Sequences, FiniteSets, TLC

(***************************************************************************)
(* Python str / int primitives used by the script                          *)
(***************************************************************************)

\* s[i-1] of Python: the one-character string at (1-based) position i.
CharAt(s, i) == SubSeq(s, i, i)

\* The printable ASCII characters in code point order: U+0020 .. U+005F and
\* U+0061 .. U+007E (U+0060 cannot be written in a TLA+ string).
AsciiLow == " !\"#$%&'()*+,-./0123456789:;<=>?@ABCDEFGHIJKLMNOPQRSTUVWXYZ[\\]^_"

AsciiHigh == "abcdefghijklmnopqrstuvwxyz{|}~"

\* ord(c) for the characters file and driver names are made of.
CodePoint(c) ==
    IF c = "\n" THEN 10
    ELSE IF \E i \in 1..Len(AsciiLow) : CharAt(AsciiLow, i) = c
         THEN 31 + (CHOOSE i \in 1..Len(AsciiLow) : CharAt(AsciiLow, i) = c)
         ELSE 96 + (CHOOSE i \in 1..Len(AsciiHigh) : CharAt(AsciiHigh, i) = c)

\* a < b on Python str: lexicographic by code point, a proper prefix first.
RECURSIVE StrLessFrom(_, _, _)
StrLessFrom(a, b, i) ==
    IF i > Len(b) THEN FALSE
    ELSE IF i > Len(a) THEN TRUE
    ELSE IF CharAt(a, i) = CharAt(b, i) THEN StrLessFrom(a, b, i + 1)
    ELSE CodePoint(CharAt(a, i)) < CodePoint(CharAt(b, i))

StrLess(a, b) == StrLessFrom(a, b, 1)

Digits == <<"0", "1", "2", "3", "4", "5", "6", "7", "8", "9">>

\* \d restricted to ASCII file names.
IsDigit(c) == \E k \in 1..10 : Digits[k] = c

DigitVal(c) == (CHOOSE k \in 1..10 : Digits[k] = c) - 1

\* int(s) for a non-empty string of decimal digits (leading zeros allowed).
RECURSIVE IntOfPrefix(_, _)
IntOfPrefix(s, n) ==
    IF n = 0 THEN 0
    ELSE 10 * IntOfPrefix(s, n - 1) + DigitVal(CharAt(s, n))

int(s) == IntOfPrefix(s, Len(s))

\* str(n) for a non-negative int.
RECURSIVE str(_)
str(n) ==
    IF n < 10 THEN Digits[n + 1]
    ELSE str(n \div 10) \o Digits[(n % 10) + 1]

\* " " * n
RECURSIVE Spaces(_)
Spaces(n) == IF n <= 0 THEN "" ELSE " " \o Spaces(n - 1)

\* "-" * n
RECURSIVE Dashes(_)
Dashes(n) == IF n <= 0 THEN "" ELSE "-" \o Dashes(n - 1)

\* "{: <w}".format(s): left-aligned, filled with spaces on the right.
FormatLeft(s, w) == s \o Spaces(w - Len(s))

\* "{: >w}".format(s): right-aligned, filled with spaces on the left.
FormatRight(s, w) == Spaces(w - Len(s)) \o s

\* "{: ^w}".format(s): centred, the odd space going to the right.
FormatCenter(s, w) ==
    LET pad == IF w > Len(s) THEN w - Len(s) ELSE 0
        left == pad \div 2
    IN  Spaces(left) \o s \o Spaces(pad - left)

(***************************************************************************)
(* The driver catalogue                                                    *)
(***************************************************************************)

\* (subdir, driver name, file prefix)
DRIVER_MAP == <<
    <<".", "8139too", "8139too">>,
    <<"stmmac", "dwmac-intel", "dwmac-intel">>,
    <<".", "e100", "e100">>,
    <<"e1000", "e1000", "e1000_main">>,
    <<"e1000e", "e1000e", "netdev">>,
    <<"genet", "bcmgenet", "bcmgenet">>,
    <<"igb", "igb", "igb_main">>,
    <<"igc", "igc", "igc_main">>,
    <<".", "r8169", "r8169">>,
    <<"r8169", "r8169", "r8169_main">>,
    <<"stmmac", "stmmac-pci", "stmmac_pci">> >>

\* sorted(S) for a set of str.
RECURSIVE sorted_str(_)
sorted_str(S) ==
    IF S = {} THEN <<>>
    ELSE LET m == CHOOSE x \in S : \A y \in S \ {x} : StrLess(x, y)
         IN  <<m>> \o sorted_str(S \ {m})

\* The catalogue's driver names in catalogue order, neither sorted nor
\* deduplicated.
DRIVERS_CatalogOrder == [i \in DOMAIN DRIVER_MAP |-> DRIVER_MAP[i][2]]

\* DRIVERS = sorted(set([x[1] for x in DRIVER_MAP]))
DRIVERS == sorted_str({DRIVER_MAP[i][2] : i \in DOMAIN DRIVER_MAP})

(***************************************************************************)
(* The version scanner's pure part                                         *)
(***************************************************************************)

\* The pattern "^" + prefix + "-([\d]+)\.([\d]+)-ethercat\." + ext + "$":
\* a literal head, two digit groups around a literal dot, a literal tail.
\* (No catalogue prefix holds a character that is special in a pattern.)
compile_regex(prefix, file_extension) ==
    [head |-> prefix \o "-", tail |-> "-ethercat." \o file_extension]

\* Whether literal lit stands in s at position i.
LiteralAt(s, i, lit) ==
    /\ i + Len(lit) - 1 <= Len(s)
    /\ SubSeq(s, i, i + Len(lit) - 1) = lit

\* The position after the longest run of digits of s that starts at i.
RECURSIVE DigitRunEnd(_, _)
DigitRunEnd(s, i) ==
    IF i <= Len(s) /\ IsDigit(CharAt(s, i)) THEN DigitRunEnd(s, i + 1) ELSE i

\* "$" without re.MULTILINE: at the end of the string, or just before a
\* newline that is the string's last character.
DollarAt(s, i) ==
    \/ i = Len(s) + 1
    \/ i = Len(s) /\ CharAt(s, i) = "\n"

\* rex.match(file) is None
NoMatch == <<>>

\* rex.match(file): NoMatch, or match.group(1, 2).
rex_match(rex, file) ==
    LET i1 == Len(rex.head) + 1
        e1 == DigitRunEnd(file, i1)
        i2 == e1 + 1
        e2 == DigitRunEnd(file, i2)
    IN  IF /\ LiteralAt(file, 1, rex.head)
           /\ e1 > i1
           /\ LiteralAt(file, e1, ".")
           /\ e2 > i2
           /\ LiteralAt(file, e2, rex.tail)
           /\ DollarAt(file, e2 + Len(rex.tail))
        THEN <<SubSeq(file, i1, e1 - 1), SubSeq(file, i2, e2 - 1)>>
        ELSE NoMatch

\* filter_versions: the set of (major, minor) of the files of file_list (a
\* sequence, in listing order) that match.
filter_versions(file_list, prefix, file_extension) ==
    LET rex == compile_regex(prefix, file_extension)
        matches == {rex_match(rex, file_list[i]) : i \in DOMAIN file_list}
    IN  {<<int(m[1]), int(m[2])>> : m \in matches \ {NoMatch}}

\* driver_table is a dict: a sequence of [key, value] in insertion order.
dict_keys(d) == [i \in DOMAIN d |-> d[i].key]

dict_has(d, k) == \E i \in DOMAIN d : d[i].key = k

dict_get(d, k) == d[CHOOSE i \in DOMAIN d : d[i].key = k].value

\* add_driver(versions, driver), versions in the order the set iterates.
RECURSIVE add_driver(_, _, _)
add_driver(driver_table, versions, driver) ==
    IF versions = <<>> THEN driver_table
    ELSE LET version == Head(versions)
             created == IF dict_has(driver_table, version) THEN driver_table
                        ELSE Append(driver_table, [key |-> version, value |-> {}])
             added == [i \in DOMAIN created |->
                          IF created[i].key = version
                          THEN [created[i] EXCEPT !.value = @ \cup {driver}]
                          ELSE created[i]]
         IN  add_driver(added, Tail(versions), driver)

(***************************************************************************)
(* The table renderer                                                      *)
(***************************************************************************)

\* a < b on (major, minor) tuples of int.
TupleLess(a, b) == a[1] < b[1] \/ (a[1] = b[1] /\ a[2] < b[2])

Range(f) == {f[i] : i \in DOMAIN f}

\* sorted(S) of a set of distinct tuples, ascending.
RECURSIVE sorted_asc(_)
sorted_asc(S) ==
    IF S = {} THEN <<>>
    ELSE LET m == CHOOSE x \in S : \A y \in S \ {x} : TupleLess(x, y)
         IN  <<m>> \o sorted_asc(S \ {m})

\* sorted(S, reverse=True) of a set of distinct tuples.
RECURSIVE sorted_reverse(_)
sorted_reverse(S) ==
    IF S = {} THEN <<>>
    ELSE LET m == CHOOSE x \in S : \A y \in S \ {x} : TupleLess(y, x)
         IN  <<m>> \o sorted_reverse(S \ {m})

\* The keys in ascending order (reverse=True forgotten).
table_keys_Ascending(dict_data) == sorted_asc(Range(dict_keys(dict_data)))

\* The keys in the dict's insertion order (sorted() forgotten).
table_keys_Unsorted(dict_data) == dict_keys(dict_data)

\* keys = sorted(dict_data.keys(), reverse=True)
table_keys(dict_data) == sorted_reverse(Range(dict_keys(dict_data)))

\* parse_row(key)
parse_row(dict_data, key) ==
    LET row_set == dict_get(dict_data, key)
    IN  [i \in DOMAIN DRIVERS |-> IF DRIVERS[i] \in row_set THEN "X" ELSE "-"]

\* The minor right-aligned in width 2.
row_caption_RightAligned(key) == str(key[1]) \o "." \o FormatRight(str(key[2]), 2)

\* c = "{}.{: <2}".format(*key)
row_caption(key) == str(key[1]) \o "." \o FormatLeft(str(key[2]), 2)

\* compute_table(dict_data): the header row, then one row per key.
compute_table(dict_data) ==
    LET keys == table_keys(dict_data)
    IN  << <<"Kernel">> \o DRIVERS >>
        \o [k \in DOMAIN keys |-> <<row_caption(keys[k])>> \o parse_row(dict_data, keys[k])]

\* get_max_width(row): the longest cell of row.
RECURSIVE get_max_width(_)
get_max_width(row) ==
    IF row = <<>> THEN 0
    ELSE LET rest == get_max_width(Tail(row))
         IN  IF Len(Head(row)) > rest THEN Len(Head(row)) ELSE rest

\* ans += cell_fmt_center.format(cell) for every cell of cells.
RECURSIVE centred_cells(_, _)
centred_cells(cells, width) ==
    IF cells = <<>> THEN ""
    ELSE "| " \o FormatCenter(Head(cells), width) \o " "
         \o centred_cells(Tail(cells), width)

\* ans += ':' + "-" * width + ':|', n times.
RECURSIVE separator_cells(_, _)
separator_cells(n, width) ==
    IF n <= 0 THEN ""
    ELSE ":" \o Dashes(width) \o ":|" \o separator_cells(n - 1, width)

\* The data rows of dump_markdown, each led by a newline.
RECURSIVE data_lines(_, _)
data_lines(rows, width) ==
    IF rows = <<>> THEN ""
    ELSE "\n" \o "| " \o FormatRight(Head(rows)[1], width) \o " "
         \o centred_cells(Tail(Head(rows)), width) \o "|"
         \o data_lines(Tail(rows), width)

\* The column width taken over every row of the table.
RECURSIVE markdown_width_AllRows(_)
markdown_width_AllRows(table_data) ==
    IF table_data = <<>> THEN 0
    ELSE LET rest == markdown_width_AllRows(Tail(table_data))
             here == get_max_width(Head(table_data))
         IN  IF here > rest THEN here ELSE rest

\* width = get_max_width(table_data[0])
markdown_width(table_data) == get_max_width(table_data[1])

\* dump_markdown(table_data)
dump_markdown(table_data) ==
    LET width == markdown_width(table_data)
    IN  "| " \o FormatLeft(table_data[1][1], width) \o " "
        \o centred_cells(Tail(table_data[1]), width)
        \o "|\n|-" \o Dashes(width) \o ":|"
        \o separator_cells(Len(table_data[1]) - 1, width)
        \o data_lines(Tail(table_data), width)

(***************************************************************************)
(* The file system and the command line                                    *)
(*                                                                         *)
(* tree is the devices directory "d": a function from the directories that *)
(* exist ("." is d itself, the others d/<subdir>) to their regular files,  *)
(* each a function name -> content.  outside holds the files of the        *)
(* working directory, which is not under d.                                *)
(***************************************************************************)

VARIABLES
    argv,           \* sys.argv[1:]
    tree,           \* the devices directory
    outside,        \* files of the working directory: name -> content
    stdout,         \* what the process has printed
    stderr,         \* "", "usage" (argparse's message) or "traceback"
    exit_code,      \* Running, or the process's exit status
    pc,             \* the statement the process is at
    args,           \* the parsed Namespace
    files,          \* get_all_drivers: the listing of drivers_dir
    entry,          \* get_all_drivers: index of the DRIVER_MAP entry in turn
    driver_table,   \* get_all_drivers: the dict being built
    table,          \* compute_table's result, NoTable before
    run,            \* "first" or "second" invocation over the same tree
    first_scan,     \* what the first invocation listed and computed
    fs0             \* the file system as the running process found it

vars == <<argv, tree, outside, stdout, stderr, exit_code, pc, args, files,
          entry, driver_table, table, run, first_scan, fs0>>

\* exit_code of a process that has not exited.
Running == -1

\* table before compute_table has returned (a table has a header row).
NoTable == <<>>

\* args before parse_args has returned; args.markdown is None (<<>>) or a
\* list of one file, args.devices_dir a list of one path.
NoArgs == [markdown |-> <<>>, devices_dir |-> <<>>]

\* first_scan before the first run has listed anything.
NoScan == [names |-> <<>>, table |-> NoTable]

\* The catalogue's subdirectories.
Subdirs == {DRIVER_MAP[i][1] : i \in DOMAIN DRIVER_MAP} \ {"."}

\* The position of the last "/" of path, 0 when it has none.
RECURSIVE LastSlash(_, _)
LastSlash(path, i) ==
    IF i = 0 THEN 0
    ELSE IF CharAt(path, i) = "/" THEN i
    ELSE LastSlash(path, i - 1)

\* os.path.dirname / basename
dirname(path) ==
    LET k == LastSlash(path, Len(path))
    IN  IF k <= 1 THEN SubSeq(path, 1, k) ELSE SubSeq(path, 1, k - 1)

basename(path) == SubSeq(path, LastSlash(path, Len(path)) + 1, Len(path))

\* Where a path of the command line leads: a directory of the tree (its key),
\* the working directory, or a directory that does not exist.
DirOf(directory) ==
    IF directory = "" THEN "cwd"
    ELSE IF directory = "d" THEN "."
    ELSE IF dirname(directory) = "d" THEN basename(directory)
    ELSE "nowhere"

\* Whether directory (a path) is an existing directory in file system t.
isdir(t, directory) ==
    \/ DirOf(directory) = "cwd"
    \/ DirOf(directory) \in DOMAIN t

\* The names of every file under d, per directory.
Names(t) == [dir \in DOMAIN t |-> DOMAIN t[dir]]

\* The sequences that list the elements of S once each.
Orders(S) ==
    {o \in [1..Cardinality(S) -> S] : \A i, j \in DOMAIN o : i # j => o[i] # o[j]}

\* f with x mapped to v, x added to its domain when new.
Put(f, x, v) == [y \in DOMAIN f \cup {x} |-> IF y = x THEN v ELSE f[y]]

(***************************************************************************)
(* __main__: the argument parser                                           *)
(***************************************************************************)

\* open(path, "w") succeeds: the parent directory exists and path does not
\* name a directory.
can_open(t, path) ==
    /\ isdir(t, dirname(path))
    /\ ~isdir(t, path)
    /\ basename(path) # ""

\* The open() as if it were deferred to the write: the parser keeps the path.
FileType_w_ok_Lazy(t, path) == TRUE

\* argparse.FileType("w")(path): "-" is sys.stdout, anything else is opened.
FileType_w_ok(t, path) == path = "-" \/ can_open(t, path)

\* An argument that looks like an option flag.
IsOptionString(a) == Len(a) > 1 /\ CharAt(a, 1) = "-"

\* parser.parse_args, left to right from token i.  ns collects the Namespace,
\* the paths FileType opened (in order), the surplus positionals and the
\* error that stopped the parser.  The tokens are "--markdown", "-" or
\* strings that do not begin with "-".
RECURSIVE parse_from(_, _, _, _)
parse_from(t, tokens, i, ns) ==
    IF i > Len(tokens) THEN
        IF ns.devices_dir = <<>>
        THEN [ns EXCEPT !.error = "the following arguments are required"]
        ELSE IF ns.extras # <<>>
        THEN [ns EXCEPT !.error = "unrecognized arguments"]
        ELSE ns
    ELSE IF tokens[i] = "--markdown" THEN
        IF i + 1 > Len(tokens) \/ IsOptionString(tokens[i + 1])
        THEN [ns EXCEPT !.error = "expected 1 argument"]
        ELSE IF ~FileType_w_ok(t, tokens[i + 1])
        THEN [ns EXCEPT !.error = "can't open"]
        ELSE parse_from(t, tokens, i + 2,
                        [ns EXCEPT !.markdown = <<tokens[i + 1]>>,
                                   !.opened = Append(@, tokens[i + 1])])
    ELSE IF ns.devices_dir = <<>>
    THEN parse_from(t, tokens, i + 1, [ns EXCEPT !.devices_dir = <<tokens[i]>>])
    ELSE parse_from(t, tokens, i + 1, [ns EXCEPT !.extras = Append(@, tokens[i])])

parse_args(t, tokens) ==
    parse_from(t, tokens, 1,
               [markdown |-> <<>>, devices_dir |-> <<>>, opened |-> <<>>,
                extras |-> <<>>, error |-> ""])

\* The files of directory key dir after open(path, "w") for every path of
\* paths that leads there: each is created or emptied.
RECURSIVE opened_in(_, _, _)
opened_in(dir, dir_files, paths) ==
    IF paths = <<>> THEN dir_files
    ELSE LET path == Head(paths)
             here == path # "-" /\ DirOf(dirname(path)) = dir
         IN  opened_in(dir,
                       IF here THEN Put(dir_files, basename(path), "") ELSE dir_files,
                       Tail(paths))

(***************************************************************************)
(* The process, statement by statement                                     *)
(***************************************************************************)

\* The process ends: an uncaught exception prints a traceback and exits 1,
\* argparse's error() prints the usage and exits 2.
Exit(code, message) ==
    /\ pc' = "exited"
    /\ exit_code' = code
    /\ stderr' = message

\* args = parser.parse_args(argv[1:]).  FileType("w") opens every --markdown
\* path as the parser meets it, whatever the parser finds afterwards.
ParseArgs ==
    /\ pc = "parse_args"
    /\ LET ns == parse_args(tree, argv)
       IN  /\ tree' = [dir \in DOMAIN tree |-> opened_in(dir, tree[dir], ns.opened)]
           /\ outside' = opened_in("cwd", outside, ns.opened)
           /\ IF ns.error # ""
              THEN /\ Exit(2, "usage")
                   /\ args' = args
              ELSE /\ pc' = "get_all_drivers"
                   /\ args' = [markdown |-> ns.markdown, devices_dir |-> ns.devices_dir]
                   /\ UNCHANGED <<exit_code, stderr>>
    /\ UNCHANGED <<argv, stdout, files, entry, driver_table, table, run,
                   first_scan, fs0>>

\* A missing directory listed as if it were empty.
walk_fails_Never(t, directory) == FALSE

\* next(walk(directory))[2] of a directory that does not exist: walk yields
\* nothing (it swallows the scandir error) and next() raises StopIteration.
walk_fails(t, directory) == ~isdir(t, directory)

\* The regular files walk lists in directory, none when it yields nothing.
listdir(t, directory) ==
    IF isdir(t, directory) /\ DirOf(directory) \in DOMAIN t
    THEN DOMAIN t[DirOf(directory)]
    ELSE {}

\* files = next(walk(drivers_dir))[2]; driver_table = {}
ListDriversDir ==
    /\ pc = "get_all_drivers"
    /\ IF walk_fails(tree, args.devices_dir[1])
       THEN /\ Exit(1, "traceback")
            /\ UNCHANGED <<files, entry, driver_table, first_scan>>
       ELSE /\ \E listing \in Orders(listdir(tree, args.devices_dir[1])) :
                   files' = listing
            /\ entry' = 1
            /\ driver_table' = <<>>
            /\ pc' = "scan"
            /\ first_scan' = IF run = "first"
                             THEN [first_scan EXCEPT !.names = Names(tree)]
                             ELSE first_scan
            /\ UNCHANGED <<exit_code, stderr>>
    /\ UNCHANGED <<argv, tree, outside, stdout, args, table, run, fs0>>

\* join(drivers_dir, subdir)
join(directory, name) == directory \o "/" \o name

\* One turn of "for subdir, driver_name, file_prefix in DRIVER_MAP", and the
\* return after the last.  walk may list the files in any order, and the
\* "for version in versions" of add_driver may meet the set in any order.
ScanEntry ==
    /\ pc = "scan"
    /\ LET subdir == DRIVER_MAP[entry][1]
           driver_name == DRIVER_MAP[entry][2]
           file_prefix == DRIVER_MAP[entry][3]
           directory == join(args.devices_dir[1], subdir)
       IN  IF subdir # "." /\ walk_fails(tree, directory)
           THEN /\ Exit(1, "traceback")
                /\ UNCHANGED <<entry, driver_table>>
           ELSE /\ \E tmp_files \in IF subdir = "." THEN {files}
                                    ELSE Orders(listdir(tree, directory)) :
                   \E versions \in Orders(filter_versions(tmp_files, file_prefix, "c")) :
                       driver_table' = add_driver(driver_table, versions, driver_name)
                /\ entry' = entry + 1
                /\ pc' = IF entry = Len(DRIVER_MAP) THEN "compute_table" ELSE "scan"
                /\ UNCHANGED <<exit_code, stderr>>
    /\ UNCHANGED <<argv, tree, outside, stdout, args, files, table, run,
                   first_scan, fs0>>

\* table = compute_table(get_all_drivers(...))
ComputeTable ==
    /\ pc = "compute_table"
    /\ table' = compute_table(driver_table)
    /\ pc' = "markdown"
    /\ first_scan' = IF run = "first"
                     THEN [first_scan EXCEPT !.table = table']
                     ELSE first_scan
    /\ UNCHANGED <<argv, tree, outside, stdout, stderr, exit_code, args, files,
                   entry, driver_table, run, fs0>>

\* What the process writes without the closing newline.
markdown_text_NoNewline(table_data) == dump_markdown(table_data)

\* f.write(dump_markdown(table)); f.write('\n')
markdown_text(table_data) == dump_markdown(table_data) \o "\n"

\* if args.markdown is not None: with args.markdown[0] as f: ...
\* The handle stands at the start of the file that open() emptied.
WriteMarkdown ==
    /\ pc = "markdown"
    /\ IF args.markdown = <<>>
       THEN UNCHANGED <<tree, outside, stdout>>
       ELSE LET path == args.markdown[1]
                text == markdown_text(table)
                dir == DirOf(dirname(path))
            IN  IF path = "-"
                THEN /\ stdout' = stdout \o text
                     /\ UNCHANGED <<tree, outside>>
                ELSE /\ tree' = [d \in DOMAIN tree |->
                                    IF d = dir
                                    THEN Put(tree[d], basename(path),
                                             tree[d][basename(path)] \o text)
                                    ELSE tree[d]]
                     /\ outside' = IF dir = "cwd"
                                   THEN Put(outside, basename(path),
                                            outside[basename(path)] \o text)
                                   ELSE outside
                     /\ UNCHANGED stdout
    /\ Exit(0, "")
    /\ UNCHANGED <<argv, args, files, entry, driver_table, table, run,
                   first_scan, fs0>>

\* The same command is run a second time.
Rerun ==
    /\ pc = "exited"
    /\ exit_code = 0
    /\ run = "first"
    /\ run' = "second"
    /\ pc' = "parse_args"
    /\ exit_code' = Running
    /\ stdout' = ""
    /\ stderr' = ""
    /\ args' = NoArgs
    /\ files' = <<>>
    /\ entry' = 0
    /\ driver_table' = <<>>
    /\ table' = NoTable
    /\ fs0' = [tree |-> tree, outside |-> outside]
    /\ UNCHANGED <<argv, tree, outside, first_scan>>

Next ==
    \/ ParseArgs
    \/ ListDriversDir
    \/ ScanEntry
    \/ ComputeTable
    \/ WriteMarkdown
    \/ Rerun

(***************************************************************************)
(* The inputs explored                                                      *)
(***************************************************************************)

\* The most files a devices directory explored in full holds.
MaxFiles == 2

\* The files a devices directory is drawn from, <<directory key, name>>:
\* matching names, the same version spelt twice (5.4, 5.04), a version whose
\* caption is wider than every header cell, and names that differ from a
\* matching one by the extension, by a trailing newline or by the directory
\* they lie in.
FilePool == {
    <<".", "e100-5.15-ethercat.c">>,
    <<".", "e100-5.4-ethercat.c">>,
    <<".", "e100-5.04-ethercat.c">>,
    <<".", "e100-6.1-ethercat.h">>,
    <<".", "e100-6.1-ethercat.c\n">>,
    <<".", "e100-123456789.10-ethercat.c">>,
    <<".", "r8169-6.1-ethercat.c">>,
    <<".", "8139too-6.0-ethercat.c">>,
    <<".", "igb_main-6.1-ethercat.c">>,
    <<"igb", "igb_main-6.1-ethercat.c">>,
    <<"igb", "e100-5.15-ethercat.c">>,
    <<"r8169", "r8169_main-6.1-ethercat.c">>,
    <<"stmmac", "stmmac_pci-5.15-ethercat.c">>,
    <<"stmmac", "dwmac-intel-6.1-ethercat.c">> }

\* The devices directory every command line is tried on.
BaseFiles == {
    <<".", "e100-5.15-ethercat.c">>,
    <<".", "e100-5.4-ethercat.c">>,
    <<".", "e100-5.04-ethercat.c">>,
    <<"igb", "igb_main-6.1-ethercat.c">>,
    <<"r8169", "r8169_main-6.1-ethercat.c">> }

\* The command lines: well-formed ones (no --markdown; a path in the working
\* directory, before or after devices_dir; "-"; a path under d; two flags; a
\* path that cannot be opened) and malformed ones.
ArgvPool == {
    <<"d">>,
    <<"--markdown", "out.md", "d">>,
    <<"d", "--markdown", "out.md">>,
    <<"--markdown", "-", "d">>,
    <<"--markdown", "d/e100-6.1-ethercat.c", "d">>,
    <<"--markdown", "a.md", "--markdown", "out.md", "d">>,
    <<"--markdown", "/nonexistent/out.md", "d">>,
    <<"--markdown", "out.md">>,
    <<"--markdown", "out.md", "d", "d2">>,
    <<"d", "--markdown">>,
    <<>> }

\* The tree that holds the files F, the directories of missing (and all of
\* them when d itself is missing) left out.
TreeOf(F, missing) ==
    [dir \in IF "." \in missing THEN {} ELSE ({"."} \cup Subdirs) \ missing |->
        [name \in {f[2] : f \in {g \in F : g[1] = dir}} |-> ""]]

Init ==
    /\ \/ /\ \E F \in SUBSET FilePool :
                /\ Cardinality(F) <= MaxFiles
                /\ tree = TreeOf(F, {})
          /\ argv = <<"--markdown", "out.md", "d">>
          /\ outside = [name \in {"out.md"} |-> "OLD"]
       \/ /\ \E dir \in {"."} \cup Subdirs, gone \in BOOLEAN :
                tree = TreeOf(BaseFiles, IF gone THEN {dir} ELSE {})
          /\ argv \in ArgvPool
          /\ outside \in {[name \in {} |-> ""], [name \in {"out.md"} |-> "OLD"]}
    /\ stdout = ""
    /\ stderr = ""
    /\ exit_code = Running
    /\ pc = "parse_args"
    /\ args = NoArgs
    /\ files = <<>>
    /\ entry = 0
    /\ driver_table = <<>>
    /\ table = NoTable
    /\ run = "first"
    /\ first_scan = NoScan
    /\ fs0 = [tree |-> tree, outside |-> outside]

Spec == Init /\ [][Next]_vars

(***************************************************************************)
(* What the properties speak of                                            *)
(***************************************************************************)

CatalogDirs == {"."} \cup Subdirs

CatalogNames == {DRIVER_MAP[i][2] : i \in DOMAIN DRIVER_MAP}

AllDigits(s) == Len(s) > 0 /\ \A i \in 1..Len(s) : IsDigit(CharAt(s, i))

\* name is exactly <prefix>-<major>.<minor>-ethercat.c with the two numbers
\* of version v (in any spelling of decimal digits).
ExactName(name, prefix, v) ==
    \E la, lb \in 1..Len(name) :
        LET head == prefix \o "-"
            tail == "-ethercat.c"
            a0 == Len(head)
            b0 == a0 + la + 1
        IN  /\ Len(name) = b0 + lb + Len(tail)
            /\ SubSeq(name, 1, a0) = head
            /\ AllDigits(SubSeq(name, a0 + 1, a0 + la))
            /\ CharAt(name, a0 + la + 1) = "."
            /\ AllDigits(SubSeq(name, b0 + 1, b0 + lb))
            /\ SubSeq(name, b0 + lb + 1, Len(name)) = tail
            /\ int(SubSeq(name, a0 + 1, a0 + la)) = v[1]
            /\ int(SubSeq(name, b0 + 1, b0 + lb)) = v[2]

\* Some catalogue entry of driver has an exactly named file for v in the
\* entry's own directory of t.
HasExactFile(t, driver, v) ==
    \E i \in DOMAIN DRIVER_MAP :
        /\ DRIVER_MAP[i][2] = driver
        /\ DRIVER_MAP[i][1] \in DOMAIN t
        /\ \E name \in DOMAIN t[DRIVER_MAP[i][1]] :
               ExactName(name, DRIVER_MAP[i][3], v)

\* The position of the first "." of s from i on.
RECURSIVE FirstDot(_, _)
FirstDot(s, i) ==
    IF i > Len(s) \/ CharAt(s, i) = "." THEN i ELSE FirstDot(s, i + 1)

\* The (major, minor) a row caption "<major>.<minor>[ ]" reads as.
CaptionVersion(c) ==
    LET dot == FirstDot(c, 1)
    IN  <<int(SubSeq(c, 1, dot - 1)),
          int(SubSeq(c, dot + 1, DigitRunEnd(c, dot + 1) - 1))>>

DataRows == 2..Len(table)

Columns == 2..Len(table[1])

\* The versions the dict holds.
Keys == Range(dict_keys(driver_table))

\* s cut at its newlines.
RECURSIVE SplitLines(_, _)
SplitLines(s, from) ==
    LET RECURSIVE NewlineFrom(_)
        NewlineFrom(i) ==
            IF i > Len(s) \/ CharAt(s, i) = "\n" THEN i ELSE NewlineFrom(i + 1)
        nl == NewlineFrom(from)
    IN  IF nl > Len(s) THEN <<SubSeq(s, from, Len(s))>>
        ELSE <<SubSeq(s, from, nl - 1)>> \o SplitLines(s, nl + 1)

\* The longest cell of the header row.
HeaderWidth ==
    CHOOSE w \in {Len(table[1][c]) : c \in 1..Len(table[1])} :
        \A c \in 1..Len(table[1]) : Len(table[1][c]) <= w

\* The width a cell takes in a rendered line of columns W wide.
CellWidth(cell, W) == IF Len(cell) > W THEN Len(cell) ELSE W

\* The offset of cell c of row (a sequence of cells) in its rendered line.
RECURSIVE CellOffset(_, _, _)
CellOffset(row, c, W) ==
    IF c = 1 THEN 0 ELSE CellOffset(row, c - 1, W) + CellWidth(row[c - 1], W) + 3

\* s is sub with k spaces before it and spaces after it.
PaddedAt(s, sub, k) == s = Spaces(k) \o sub \o Spaces(Len(s) - Len(sub) - k)

\* line is the rendering of row in columns W wide: per cell "| ", the cell
\* padded with spaces to its width and untruncated, " "; then one closing
\* "|".
LineRenders(line, row, W) ==
    /\ Len(line) = CellOffset(row, Len(row), W) + CellWidth(row[Len(row)], W) + 4
    /\ CharAt(line, Len(line)) = "|"
    /\ \A c \in 1..Len(row) :
           LET o == CellOffset(row, c, W)
               w == CellWidth(row[c], W)
           IN  /\ SubSeq(line, o + 1, o + 2) = "| "
               /\ CharAt(line, o + w + 3) = " "
               /\ \E k \in 0..(w - Len(row[c])) :
                      PaddedAt(SubSeq(line, o + 3, o + w + 2), row[c], k)

\* The separator line for n columns of width w.
RECURSIVE SeparatorTail(_, _)
SeparatorTail(n, w) ==
    IF n = 0 THEN "" ELSE ":" \o Dashes(w) \o ":|" \o SeparatorTail(n - 1, w)

\* The content of the file at path, NoFile when there is none.
NoFile == <<"no such file">>

FileAt(t, o, path) ==
    LET dir == DirOf(dirname(path))
        name == basename(path)
    IN  IF dir = "cwd" THEN (IF name \in DOMAIN o THEN <<o[name]>> ELSE NoFile)
        ELSE IF dir \in DOMAIN t /\ name \in DOMAIN t[dir] THEN <<t[dir][name]>>
        ELSE NoFile

\* The number of --markdown flags of the command line.
RECURSIVE FlagCount(_)
FlagCount(tokens) ==
    IF tokens = <<>> THEN 0
    ELSE (IF Head(tokens) = "--markdown" THEN 1 ELSE 0) + FlagCount(Tail(tokens))

\* A command line argparse accepts: every --markdown is followed by its
\* value and exactly one argument is left for devices_dir.
WellFormed(tokens) ==
    /\ \A i \in DOMAIN tokens :
           tokens[i] = "--markdown" =>
               i < Len(tokens) /\ ~IsOptionString(tokens[i + 1])
    /\ Len(tokens) = 2 * FlagCount(tokens) + 1

\* A --markdown path of the command line cannot be opened for writing.
Unopenable ==
    \E i \in DOMAIN argv :
        /\ argv[i] = "--markdown"
        /\ i < Len(argv)
        /\ argv[i + 1] # "-"
        /\ ~can_open(fs0.tree, argv[i + 1])

\* No file and no stream holds a rendered table.
NothingRendered ==
    /\ stdout = ""
    /\ \A name \in DOMAIN outside : outside[name] \in {"", "OLD"}
    /\ \A dir \in DOMAIN tree : \A name \in DOMAIN tree[dir] : tree[dir][name] = ""

(***************************************************************************)
(* The properties                                                          *)
(***************************************************************************)

\* C1: in every table compute_table returns for a tree whose catalogue directories all
\* exist, a cell is "X" exactly when some catalogue entry of the column's
\* driver has, in the entry's own directory, a file named exactly
\* <prefix>-<major>.<minor>-ethercat.c with the row's version; every other
\* cell is "-".
C1_CellsMatchExactFiles ==
    pc = "markdown" =>
        \A r \in DataRows : \A c \in Columns :
            /\ table[r][c] \in {"X", "-"}
            /\ table[r][c] = "X" <=>
                   HasExactFile(tree, table[1][c], CaptionVersion(table[r][1]))

\* C2: in the table compute_table returns, the header row is "Kernel" and then the catalogue's driver names,
\* each once, in ascending order; every data row is as long as the header
\* and its cell under a driver says whether the row's version has that
\* driver.
C2_HeaderAndColumns ==
    pc = "markdown" =>
        /\ table[1][1] = "Kernel"
        /\ table[1] = <<"Kernel", "8139too", "bcmgenet", "dwmac-intel", "e100",
                        "e1000", "e1000e", "igb", "igc", "r8169", "stmmac-pci">>
        /\ {table[1][c] : c \in Columns} = CatalogNames
        /\ \A c \in Columns : c < Len(table[1]) => StrLess(table[1][c], table[1][c + 1])
        /\ Cardinality({c \in Columns : table[1][c] = "r8169"}) = 1
        /\ \A r \in DataRows :
               /\ Len(table[r]) = Len(table[1])
               /\ \A c \in Columns :
                      table[r][c] = "X" <=>
                          table[1][c] \in dict_get(driver_table, CaptionVersion(table[r][1]))

\* A table of two or more data rows, one of them with r8169 present.
C2_Witness ==
    /\ pc = "markdown"
    /\ Len(table) >= 3
    /\ \E r \in DataRows : \E c \in Columns :
           table[1][c] = "r8169" /\ table[r][c] = "X"

\* C3: in the table compute_table returns, the data rows are in strictly descending order of (major, minor)
\* compared as numbers, and the rows are the versions of the dict, one row
\* each.
C3_RowsDescending ==
    pc = "markdown" =>
        /\ \A r \in DataRows :
               r < Len(table) =>
                   TupleLess(CaptionVersion(table[r + 1][1]), CaptionVersion(table[r][1]))
        /\ {CaptionVersion(table[r][1]) : r \in DataRows} = Keys
        /\ Len(table) - 1 = Cardinality(Keys)

\* Files spelt 5.04 and 5.4 beside a 5.15 and a 6.1: three rows, 6.1, 5.15
\* and 5.4.
C3_Witness ==
    /\ pc = "markdown"
    /\ "." \in DOMAIN tree
    /\ {"e100-5.04-ethercat.c", "e100-5.4-ethercat.c"} \subseteq DOMAIN tree["."]
    /\ Len(table) = 4
    /\ table[2][1] = "6.1 "
    /\ table[3][1] = "5.15"
    /\ table[4][1] = "5.4 "

\* C4: when d or a catalogue subdirectory does not exist, a run whose
\* arguments parsed ends in the uncaught StopIteration with no table computed
\* and nothing rendered; and a table is only ever computed after every
\* catalogue entry was scanned in a tree that has every directory.
C4_MissingDirectoryAborts ==
    /\ (/\ pc = "exited"
        /\ args.devices_dir # <<>>
        /\ \E dir \in CatalogDirs : dir \notin DOMAIN tree)
       => /\ exit_code = 1
          /\ stderr = "traceback"
          /\ table = NoTable
          /\ NothingRendered
    /\ table # NoTable =>
          /\ entry = Len(DRIVER_MAP) + 1
          /\ CatalogDirs \subseteq DOMAIN tree

\* The scan aborted at igc, after the e100 and igb entries had put three
\* versions into the dict.
C4_Witness ==
    /\ pc = "exited"
    /\ exit_code = 1
    /\ "igc" \notin DOMAIN tree
    /\ entry \in DOMAIN DRIVER_MAP
    /\ DRIVER_MAP[entry][1] = "igc"
    /\ Len(driver_table) = 3

\* C5: a missing or malformed command line ends in the usage message and a
\* non-zero exit status with nothing output: no file is created or changed,
\* an existing file at the --markdown path keeps its content.
C5_UsageErrorLeavesFiles ==
    (pc = "exited" /\ ~WellFormed(argv)) =>
        /\ exit_code = 2
        /\ stderr = "usage"
        /\ stdout = ""
        /\ tree = fs0.tree
        /\ outside = fs0.outside

\* C6 as claimed: a successful run with --markdown <path> leaves exactly the
\* rendered table and a newline in the file at <path>, a run without it
\* writes and prints nothing, and no file under d is created or changed in
\* either case.
C6_Original ==
    (pc = "exited" /\ exit_code = 0) =>
        /\ args.markdown # <<>> =>
               FileAt(tree, outside, args.markdown[1]) = <<dump_markdown(table) \o "\n">>
        /\ args.markdown = <<>> =>
               outside = fs0.outside /\ stdout = ""
        /\ tree = fs0.tree

\* C6 as amended: with one --markdown <path> other than "-" the file at
\* <path> holds exactly the rendered table and a newline and nothing is
\* printed; with --markdown - the same text goes to standard output and no
\* file changes; without --markdown nothing is written or printed.  Files
\* under d stay as they were unless <path> itself lies under d, and then
\* only that file differs.
C6_MarkdownFileContent ==
    (pc = "exited" /\ exit_code = 0 /\ FlagCount(argv) <= 1) =>
        LET text == dump_markdown(table) \o "\n"
        IN  /\ args.markdown = <<>> =>
                   /\ tree = fs0.tree
                   /\ outside = fs0.outside
                   /\ stdout = ""
            /\ args.markdown = <<"-">> =>
                   /\ tree = fs0.tree
                   /\ outside = fs0.outside
                   /\ stdout = text
            /\ (args.markdown # <<>> /\ args.markdown # <<"-">>) =>
                   LET path == args.markdown[1]
                       dir == DirOf(dirname(path))
                   IN  /\ FileAt(tree, outside, path) = <<text>>
                       /\ stdout = ""
                       /\ dir = "cwd" =>
                              /\ tree = fs0.tree
                              /\ \A name \in DOMAIN fs0.outside \ {basename(path)} :
                                     name \in DOMAIN outside
                                     /\ outside[name] = fs0.outside[name]
                       /\ dir # "cwd" =>
                              /\ outside = fs0.outside
                              /\ DOMAIN tree = DOMAIN fs0.tree
                              /\ \A d \in DOMAIN tree :
                                     \A name \in (DOMAIN tree[d] \cup DOMAIN fs0.tree[d])
                                                 \ (IF d = dir THEN {basename(path)} ELSE {}) :
                                         /\ name \in DOMAIN tree[d]
                                         /\ name \in DOMAIN fs0.tree[d]
                                         /\ tree[d][name] = fs0.tree[d][name]

\* A successful run has replaced the old content of out.md by a table with
\* data rows.
C6_Witness ==
    /\ pc = "exited"
    /\ exit_code = 0
    /\ args.markdown = <<"out.md">>
    /\ "out.md" \in DOMAIN fs0.outside
    /\ fs0.outside["out.md"] = "OLD"
    /\ Len(table) >= 3
    /\ outside["out.md"] # "OLD"

\* C7: in the table compute_table returns, the caption of the row of version (major, minor) is str(major), ".",
\* and str(minor) filled with a space on the right to two characters when it
\* is one digit and unchanged otherwise; (6,1) gives "6.1 ", (5,15) gives
\* "5.15"; no two rows share a caption.
C7_RowCaptions ==
    pc = "markdown" =>
        /\ \A v \in Keys :
               \E r \in DataRows :
                   /\ table[r][1] = str(v[1]) \o "."
                                    \o (IF v[2] < 10 THEN str(v[2]) \o " " ELSE str(v[2]))
                   /\ Len(table[r][1]) >= Len(str(v[1])) + 3
        /\ <<6, 1>> \in Keys => \E r \in DataRows : table[r][1] = "6.1 "
        /\ <<5, 15>> \in Keys => \E r \in DataRows : table[r][1] = "5.15"
        /\ \A r1, r2 \in DataRows : r1 # r2 => table[r1][1] # table[r2][1]

\* Rows for a one-digit and for a two-digit minor.
C7_Witness ==
    /\ pc = "markdown"
    /\ {<<6, 1>>, <<5, 15>>} \subseteq Keys
    /\ Len(table) >= 3

\* C8: for the table compute_table returned, dump_markdown gives the header line, the separator line and one line
\* per data row in table order; the separator is "|-", W dashes, ":|" and
\* then per further column ":", W dashes, ":|", W being the longest header
\* cell; every other line renders its row cell by cell, each cell padded to
\* W or, when longer, in full.
C8_MarkdownLayout ==
    pc = "markdown" =>
        LET lines == SplitLines(dump_markdown(table), 1)
            W == HeaderWidth
        IN  /\ Len(lines) = (Len(table) - 1) + 2
            /\ lines[2] = "|-" \o Dashes(W) \o ":|"
                          \o SeparatorTail(Len(table[1]) - 1, W)
            /\ LineRenders(lines[1], table[1], W)
            /\ \A r \in DataRows :
                   /\ Len(table[r]) = Len(table[1])
                   /\ LineRenders(lines[r + 1], table[r], W)

\* A table with a caption longer than every header cell, and another row.
C8_Witness ==
    /\ pc = "markdown"
    /\ Len(table) >= 3
    /\ \E r \in DataRows : Len(table[r][1]) > HeaderWidth

\* C9: the second run over the same file names computes the table the first
\* run computed, whatever order the listings and the dict were in.
C9_SameTableAgain ==
    (run = "second" /\ table # NoTable /\ Names(tree) = first_scan.names) =>
        table = first_scan.table

\* A second run whose dict was filled in another order than the table's.
C9_Witness ==
    /\ run = "second"
    /\ table # NoTable
    /\ Names(tree) = first_scan.names
    /\ Len(table) >= 3
    /\ dict_keys(driver_table) # table_keys(driver_table)
    /\ Len(files) >= 2

\* C10 as claimed: when the --markdown path cannot be opened the run ends in
\* an uncaught error, with no table written.
C10_Original ==
    (pc = "exited" /\ Unopenable) =>
        /\ exit_code = 1
        /\ stderr = "traceback"
        /\ NothingRendered

\* C10 as amended: when the --markdown path cannot be opened, argparse
\* reports it as an argument error (usage message, exit status 2) while the
\* arguments are parsed: no directory is listed, no table is computed or
\* written, and the run is over.
C10_OpenFailureIsUsageError ==
    /\ (pc = "exited" /\ Unopenable) =>
           /\ exit_code = 2
           /\ stderr = "usage"
           /\ table = NoTable
           /\ files = <<>>
           /\ entry = 0
           /\ NothingRendered
    /\ Unopenable => pc \in {"parse_args", "exited"}

\* The run ended on the path under /nonexistent.
C10_Witness ==
    /\ pc = "exited"
    /\ exit_code = 2
    /\ argv = <<"--markdown", "/nonexistent/out.md", "d">>

====
